---- MODULE Spec2Model ----
(***************************************************************************)
(* ConcertCurator (src/run.py): a synchronous script that looks up the     *)
(* tour page of each performer, extracts the concerts embedded in it,      *)
(* sorts them by date and filters them by location.                        *)
(*                                                                         *)
(* A Python str is modelled as a sequence of atoms.  An atom is either a   *)
(* single character (dates, times, locations, addresses of the sort step)  *)
(* or an indivisible chunk of page text that contains no part of any       *)
(* delimiter the code searches for.  str.split, `in`, str.title,           *)
(* str.strip and re.split are computed on these sequences as Python        *)
(* computes them on characters.                                            *)
(***************************************************************************)
EXTENDS Naturals, Sequences, FiniteSets

VARIABLES
    artist_names,      \* get_all_concerts: the performers typed by the user
    i,                 \* get_all_concerts: number of queries taken from the loop
    all_concerts,      \* the working list of Concert records
    pc,                \* position of the run
    website,           \* update_for_artist: result of the last get_website
    page,              \* the page the web served for the last query
    locations,         \* correct_locations: the list it mutates in place
    applied,           \* number of correct_locations calls made on `locations`
    given_concerts,    \* sort_concerts: all_concerts as passed by the caller
    input_locations,   \* sort_concerts: the location list
    concerts_near_me   \* sort_concerts: the returned list

vars == <<artist_names, i, all_concerts, pc, website, page, locations, applied,
          given_concerts, input_locations, concerts_near_me>>

(***************************************************************************)
(* Bounds of the model.                                                    *)
(***************************************************************************)
MaxArtists == 2
MaxBlocks == 2
MaxLocs == 2
MaxLocLen == 3
MaxConcerts == 3
MaxApplied == 2

(***************************************************************************)
(* Python string primitives on sequences of atoms.                         *)
(***************************************************************************)
NL == "\n"

\* s[from:] starts with sep
StartsAt(s, sep, from) ==
    /\ from + Len(sep) - 1 <= Len(s)
    /\ sep # <<>> => s[from] = sep[1]
    /\ SubSeq(s, from, from + Len(sep) - 1) = sep

\* s.find(sep) + 1, or 0 when sep does not occur: the leftmost occurrence
Find(s, sep) ==
    LET hits == {from \in 1..(Len(s) + 1) : StartsAt(s, sep, from)} IN
    IF hits = {} THEN 0 ELSE CHOOSE from \in hits : \A h \in hits : from <= h

\* sep in s  (the empty string is in every string)
Contains(s, sep) == Find(s, sep) # 0

\* s.split(sep) for a non-empty sep: leftmost, non-overlapping occurrences
RECURSIVE Split(_, _)
Split(s, sep) ==
    LET at == Find(s, sep) IN
    IF at = 0 THEN <<s>>
    ELSE <<SubSeq(s, 1, at - 1)>> \o Split(SubSeq(s, at + Len(sep), Len(s)), sep)

Last(q) == q[Len(q)]

Whitespace == {" ", NL, "\t"}

\* s.strip()
RECURSIVE LStrip(_)
LStrip(s) == IF s # <<>> /\ Head(s) \in Whitespace THEN LStrip(Tail(s)) ELSE s
RECURSIVE RStrip(_)
RStrip(s) ==
    IF s # <<>> /\ Last(s) \in Whitespace THEN RStrip(SubSeq(s, 1, Len(s) - 1)) ELSE s
Strip(s) == RStrip(LStrip(s))

(***************************************************************************)
(* Characters: the one-character atoms, with their code points where the   *)
(* order matters (dates are compared as strings by list.sort).             *)
(***************************************************************************)
Digits == <<"0", "1", "2", "3", "4", "5", "6", "7", "8", "9">>
DigitSet == {Digits[k] : k \in 1..10}
LowerLetters == {"a", "c", "d", "e", "g", "i", "k", "m", "n", "o", "p", "r", "s", "t",
                 "u", "v", "y"}
UpperLetters == {"A", "C", "D", "E", "G", "I", "K", "M", "N", "O", "P", "R", "S", "T",
                 "U", "V", "Y"}
CasePairs == {<<"a", "A">>, <<"c", "C">>, <<"d", "D">>, <<"e", "E">>, <<"g", "G">>,
              <<"i", "I">>, <<"k", "K">>, <<"m", "M">>, <<"n", "N">>, <<"o", "O">>,
              <<"p", "P">>, <<"r", "R">>, <<"s", "S">>, <<"t", "T">>, <<"u", "U">>,
              <<"v", "V">>, <<"y", "Y">>}
Punctuation == {"-", ":", ".", ",", "'", " "}
Chars == DigitSet \cup LowerLetters \cup UpperLetters \cup Punctuation

\* ord(c) of the characters that occur in dates
Ord(c) ==
    CASE c = "-" -> 45
      [] c \in DigitSet -> 47 + (CHOOSE k \in 1..10 : Digits[k] = c)
      [] c = ":" -> 58
      [] c = "T" -> 84
      [] OTHER -> 0

\* a < b for Python strings: lexicographic by code point
RECURSIVE StrLess(_, _)
StrLess(a, b) ==
    IF b = <<>> THEN FALSE
    ELSE IF a = <<>> THEN TRUE
    ELSE IF Head(a) # Head(b) THEN Ord(Head(a)) < Ord(Head(b))
    ELSE StrLess(Tail(a), Tail(b))

(***************************************************************************)
(* The literals the code searches page text for.  Where two literals       *)
(* overlap in the page ("Tour Dates" and "Tour Dates - "; the venue's      *)
(* right delimiter ","address": and the address's left delimiter           *)
(* "address":") they are built from shared atoms.                          *)
(***************************************************************************)
TourDates == <<"Tour Dates">>
PerformerL == <<"Tour Dates", " - ">>
PerformerR == <<" in Concert">>
MusicEvent == <<"MusicEvent">>
PerformerKey == <<"\"performer\":">>
StartDateL == <<"\"startDate\":\"">>
PlaceL == <<"\"@type\":\"Place\",\"name\":\"">>
PlaceR == <<"\",", "\"address\":">>
AddressL == <<"\"address\":", "\"">>
AddressR == <<"\"},\"offers\":">>
OfferL == <<"\"@type\":\"Offer\",\"url\":\"">>
OfferR == <<"\",\"availability\":\"">>
ImageL == <<"\"ImageObject\",\"url\":\"">>
ImageR == <<"\",\"headline\":\"">>
AllowedDomains == {"deutschegrammophon.com", "deccaclassics.com"}

\* Python's None, as the result of get_website (a URL is never empty)
None == <<>>

(***************************************************************************)
(* The web, as the script sees it: what a search returns and what a page   *)
(* looks like.  A page is described by its head (no tour section, a bare   *)
(* "Tour Dates" heading, or the full "Tour Dates - <performer> in Concert" *)
(* header), by its event blocks in document order, each well-formed        *)
(* ("none") or with one defect, and by whether the listing below the       *)
(* structured data is complete.  Render gives the text of the page.        *)
(***************************************************************************)
Roster == <<"lang lang", "yuja wang", "daniil trifonov", "seong-jin cho">>
Venues == <<"Philharmonie", "Carnegie Hall", "Wigmore Hall", "Musikverein">>
Addresses == <<"Berlin, Germany", "New York, USA", "London, United Kingdom",
               "Vienna, Austria">>
TicketSites == <<"https://tickets.example/1", "https://tickets.example/2",
                 "https://tickets.example/3", "https://tickets.example/4">>
ImageUrls == <<"https://img.example/1.jpg", "https://img.example/2.jpg",
               "https://img.example/3.jpg", "https://img.example/4.jpg">>
Pieces == <<"Goldberg Variations", "Piano Concerto No. 2", "Preludes", "Etudes">>
PagePerformer == <<"Lang Lang">>

\* the k-th block of a page is dated 202(9-k)-09-10: document order is not date order
DateOf(k) == <<"2", "0", "2", Digits[10 - k], "-", "0", "9", "-", "1", "0">>
TimeOf(k) == <<"T", "1", "9", ":", "3", "0", ":", "0", "0">>

LeftDefects == {"startDate.left", "place.left", "address.left", "offer.left",
                "image.left"}
RightDefects == {"startDate.time", "place.right", "address.right", "offer.right",
                 "image.right"}
Defects == LeftDefects \cup RightDefects \cup {"emptyVenue"}

Unless(defect, name, text) == IF defect = name THEN <<>> ELSE text

VenueText(defect, k) == Unless(defect, "emptyVenue", <<Venues[k]>>)

\* the text of event block k after its "MusicEvent" token
BlockText(defect, k) ==
    <<"\",\"name\":\"Recital\",">>
    \o Unless(defect, "startDate.left", StartDateL) \o DateOf(k)
    \o Unless(defect, "startDate.time", TimeOf(k))
    \o <<"\",\"location\":{">>
    \o Unless(defect, "place.left", PlaceL) \o VenueText(defect, k)
    \o Unless(defect, "place.right", <<"\",">>) \o <<"\"address\":">>
    \o Unless(defect, "address.left", <<"\"">>) \o <<Addresses[k]>>
    \o Unless(defect, "address.right", AddressR) \o <<"{">>
    \o Unless(defect, "offer.left", OfferL) \o <<TicketSites[k]>>
    \o Unless(defect, "offer.right", OfferR) \o <<"InStock\"},\"image\":{\"@type\":">>
    \o Unless(defect, "image.left", ImageL) \o <<ImageUrls[k]>>
    \o Unless(defect, "image.right", ImageR) \o <<"Live\"},">>
    \o PerformerKey \o <<"{\"name\":\"Lang Lang\"}},{\"@type\":\"">>

\* the visible listing of event k: the piece is on the 5th line after the venue
ListingText(defect, k, complete) ==
    <<"<div>">> \o VenueText(defect, k) \o <<NL, " ", "<span>", NL>>
    \o (IF complete
        THEN <<" ", "20:00", NL, " ", "</span>", NL, " ", Pieces[k], " ", NL,
               "</div>", NL>>
        ELSE <<>>)

HeadText(head) ==
    CASE head = "header" ->
            <<"<title>">> \o PerformerL \o PagePerformer \o PerformerR
            \o <<"</title>", NL>>
      [] head = "marker" -> <<"<h2>">> \o TourDates \o <<"</h2>", NL>>
      [] OTHER -> <<"<title>", "Artist", "</title>", NL>>

RECURSIVE Blocks(_, _)
Blocks(blocks, k) ==
    IF k > Len(blocks) THEN <<>>
    ELSE MusicEvent \o BlockText(blocks[k], k) \o Blocks(blocks, k + 1)

RECURSIVE Listings(_, _, _)
Listings(blocks, k, tail) ==
    IF k > Len(blocks) THEN <<>>
    ELSE ListingText(blocks[k], k, k < Len(blocks) \/ tail = "full")
         \o Listings(blocks, k + 1, tail)

Render(p) ==
    HeadText(p.head) \o <<"<script>", "{\"@type\":\"">> \o Blocks(p.blocks, 1)
    \o <<"</script>", NL>> \o Listings(p.blocks, 1, p.tail)

WellFormed(n) == [k \in 1..n |-> "none"]
\* n blocks, one of them with a defect.  A defect that raises is tried at every
\* place; a missing right delimiter, which never stops the loop, in the last block
DefectPlaces(d, n) == IF d \in RightDefects THEN {n} ELSE 1..n
OneDefect(n) ==
    UNION {{[k \in 1..n |-> IF k = at THEN d ELSE "none"] : at \in DefectPlaces(d, n)}
           : d \in Defects}

Page(head, blocks, tail) == [head |-> head, blocks |-> blocks, tail |-> tail]

\* pages with the full header: zero to MaxBlocks well-formed blocks; MaxBlocks blocks
\* of which one has a defect; MaxBlocks well-formed blocks above a cut listing
HeaderPages ==
    {Page("header", WellFormed(n), "full") : n \in 0..MaxBlocks}
    \cup {Page("header", b, "full") : b \in OneDefect(MaxBlocks)}
    \cup {Page("header", WellFormed(MaxBlocks), "short")}
\* pages with the bare "Tour Dates" heading
MarkerOnlyPages == {Page("marker", WellFormed(n), "full") : n \in {0, MaxBlocks}}
\* pages without a tour section, whatever else they hold
NoMarkerPages ==
    {Page("none", WellFormed(n), "full") : n \in {0, MaxBlocks}}
    \cup {Page("none", <<"startDate.left">>, "full")}
Pages == HeaderPages \cup MarkerOnlyPages \cup NoMarkerPages

\* the fetch did not return: requests.get raised (timeout, network error)
Unreachable == [head |-> "unreachable", blocks |-> <<>>, tail |-> "full"]
\* no fetch was made
NoPage == [head |-> "unfetched", blocks |-> <<>>, tail |-> "full"]

DGUrl == <<"https://www.", "deutschegrammophon.com", "/en/artists/lang-lang">>
DeccaUrl == <<"https://www.", "deccaclassics.com", "/en/artists/lang-lang">>
OtherUrl == <<"https://www.", "wikipedia.org", "/wiki/Lang_Lang">>
SearchResults == {<<>>, <<OtherUrl>>, <<OtherUrl, DGUrl>>, <<DeccaUrl, DGUrl>>}

\* what a fetch of url can return; nothing is served for None
Served(url) ==
    IF url = None THEN {NoPage}
    ELSE IF url = DeccaUrl
    THEN {Page("none", WellFormed(0), "full"), Page("header", WellFormed(1), "full")}
    ELSE Pages \cup {Unreachable}

(***************************************************************************)
(* run.py, the extraction path.  An operation that can raise returns a     *)
(* record with a `fault` field; a raised exception is never caught in      *)
(* run.py, so it ends the run.                                             *)
(***************************************************************************)
querify_name(name) == <<name, " concerts">>

\* get_website: the first search result on an allowed domain, else None
get_website(results) ==
    LET hits == {k \in 1..Len(results) :
                    \E dom \in AllowedDomains : Contains(results[k], <<dom>>)}
    IN IF hits = {} THEN None
       ELSE results[CHOOSE k \in hits : \A h \in hits : k <= h]

\* get_pretty_soup: requests.get(None) raises MissingSchema; a fetch can fail
get_pretty_soup(url, served) ==
    IF url = None \/ served = Unreachable
    THEN [fault |-> TRUE, text |-> <<>>]
    ELSE [fault |-> FALSE, text |-> Render(served)]

\* concerts_on_website with the check left out: it always passes
concerts_on_website_always(pretty_soup) == TRUE

concerts_on_website(pretty_soup) == Contains(pretty_soup, TourDates)

\* re.split("T..:..:..", s)[0]: `.` is any character but a newline
TimeAt(s, at) ==
    /\ at + 8 <= Len(s)
    /\ s[at] = "T" /\ s[at + 3] = ":" /\ s[at + 6] = ":"
    /\ \A d \in {1, 2, 4, 5, 7, 8} : s[at + d] \in Chars \ {NL}
\* DatePrefix with the time left on
DatePrefix_whole(s) == s

DatePrefix(s) ==
    IF \E at \in 1..Len(s) : TimeAt(s, at)
    THEN SubSeq(s, 1, (CHOOSE at \in 1..Len(s) :
                          TimeAt(s, at) /\ \A g \in 1..(at - 1) : ~TimeAt(s, g)) - 1)
    ELSE s

\* Between with [-1] written for [1], which never raises
Between_last(text, left, right) ==
    [fault |-> FALSE, value |-> Split(Last(Split(text, left)), right)[1]]

\* text.split(left)[1].split(right)[0]: IndexError when left is not in text
Between(text, left, right) ==
    LET parts == Split(text, left) IN
    IF Len(parts) < 2 THEN [fault |-> TRUE, value |-> <<>>]
    ELSE [fault |-> FALSE, value |-> Split(parts[2], right)[1]]

\* text.split(left)[1]
After(text, left) ==
    LET parts == Split(text, left) IN
    IF Len(parts) < 2 THEN [fault |-> TRUE, value |-> <<>>]
    ELSE [fault |-> FALSE, value |-> parts[2]]

\* pretty_soup.split(venue_name)[-1].split("\n")[4].strip(): ValueError on an
\* empty separator, IndexError when fewer than five lines follow
PieceAfter(pretty_soup, venue_name) ==
    IF venue_name = <<>> THEN [fault |-> TRUE, value |-> <<>>]
    ELSE LET lines == Split(Last(Split(pretty_soup, venue_name)), <<NL>>) IN
         IF Len(lines) < 5 THEN [fault |-> TRUE, value |-> <<>>]
         ELSE [fault |-> FALSE, value |-> Strip(lines[5])]

\* the body of the loop over events, lines 159-175; `performer` is line 160, which
\* reads the page alone and so gives the same result in every iteration
ExtractConcert(pretty_soup, performer, event) ==
    LET start == After(event, StartDateL)
        venue_name == Between(event, PlaceL, PlaceR)
        piece == PieceAfter(pretty_soup, venue_name.value)
        address == Between(event, AddressL, AddressR)
        ticket_site == Between(event, OfferL, OfferR)
        image_url == Between(event, ImageL, ImageR)
    IN IF \/ performer.fault \/ start.fault \/ venue_name.fault \/ piece.fault
          \/ address.fault \/ ticket_site.fault \/ image_url.fault
       THEN [fault |-> TRUE, concert |-> <<>>]
       ELSE [fault |-> FALSE,
             concert |-> [performer |-> performer.value,
                          date |-> DatePrefix(start.value),
                          piece |-> piece.value,
                          venue_name |-> venue_name.value,
                          address |-> address.value,
                          ticket_site |-> ticket_site.value,
                          image_url |-> image_url.value]]

\* the loop over events: each concert is appended before the next event is read
RECURSIVE AppendEvents(_, _, _, _, _)
AppendEvents(concerts, pretty_soup, performer, events, k) ==
    IF k > Len(events) THEN [fault |-> FALSE, concerts |-> concerts]
    ELSE LET e == ExtractConcert(pretty_soup, performer, events[k]) IN
         IF e.fault THEN [fault |-> TRUE, concerts |-> concerts]
         ELSE AppendEvents(Append(concerts, e.concert), pretty_soup, performer, events,
                           k + 1)

\* pretty_soup.split("MusicEvent")[1:], the last one cut at "performer":
\* (events[-1] raises IndexError on an empty list)
EventsOf(pretty_soup) ==
    LET events == Tail(Split(pretty_soup, MusicEvent)) IN
    IF events = <<>> THEN [fault |-> TRUE, events |-> <<>>]
    ELSE [fault |-> FALSE,
          events |-> [events EXCEPT ![Len(events)] = Split(@, PerformerKey)[1]]]

update_for_artist(concerts, results, served) ==
    LET url == get_website(results)
        soup == get_pretty_soup(url, served)
    IN IF soup.fault THEN [fault |-> TRUE, concerts |-> concerts]
       ELSE IF ~concerts_on_website(soup.text) THEN [fault |-> FALSE, concerts |-> concerts]
       ELSE LET ev == EventsOf(soup.text) IN
            IF ev.fault THEN [fault |-> TRUE, concerts |-> concerts]
            ELSE AppendEvents(concerts, soup.text,
                              Between(soup.text, PerformerL, PerformerR), ev.events, 1)

(***************************************************************************)
(* The run of get_all_concerts.                                            *)
(***************************************************************************)
ArtistLists == {SubSeq(Roster, 1, n) : n \in {m \in 1..MaxArtists : m <= Len(Roster)}}

\* values of the variables a specification does not use
IdleRun ==
    /\ artist_names = <<>> /\ i = 0 /\ pc = "idle" /\ website = None /\ page = NoPage
IdleLoc == locations = <<>> /\ applied = 0
IdleSort == given_concerts = <<>> /\ input_locations = <<>> /\ concerts_near_me = <<>>

Init ==
    /\ artist_names \in ArtistLists
    /\ i = 0
    /\ all_concerts = <<>>
    /\ pc = "loop"
    /\ website = None
    /\ page = NoPage
    /\ IdleLoc /\ IdleSort

\* one iteration of `for query in queries`: update_for_artist(all_concerts, query)
UpdateForArtist ==
    /\ pc = "loop"
    /\ i < Len(artist_names)
    /\ \E results \in SearchResults :
        \E served \in Served(get_website(results)) :
            LET r == update_for_artist(all_concerts, results, served) IN
            /\ i' = i + 1
            /\ website' = get_website(results)
            /\ page' = served
            /\ all_concerts' = r.concerts
            /\ pc' = IF r.fault THEN "faulted" ELSE "loop"
    /\ UNCHANGED <<artist_names, locations, applied, given_concerts, input_locations,
                   concerts_near_me>>

\* return all_concerts, input_locations
ReturnAll ==
    /\ pc = "loop"
    /\ i = Len(artist_names)
    /\ pc' = "returned"
    /\ UNCHANGED <<artist_names, i, all_concerts, website, page, locations, applied,
                   given_concerts, input_locations, concerts_near_me>>

Next == UpdateForArtist \/ ReturnAll

Spec == Init /\ [][Next]_vars

(***************************************************************************)
(* correct_locations.  A location is a sequence of characters.             *)
(***************************************************************************)
Upper(c) == IF \E pr \in CasePairs : pr[1] = c THEN (CHOOSE pr \in CasePairs : pr[1] = c)[2]
            ELSE c
Lower(c) == IF \E pr \in CasePairs : pr[2] = c THEN (CHOOSE pr \in CasePairs : pr[2] = c)[1]
            ELSE c
IsCased(c) == c \in LowerLetters \cup UpperLetters

\* str.title(): a cased character is upper-cased when the character before it is
\* not cased, and lower-cased when it is
Title(s) ==
    [k \in 1..Len(s) |-> IF k > 1 /\ IsCased(s[k - 1]) THEN Lower(s[k]) ELSE Upper(s[k])]

USA == <<"U", "S", "A">>
UnitedKingdom == <<"U", "n", "i", "t", "e", "d", " ", "K", "i", "n", "g", "d", "o", "m">>
UnitedStates == <<"U", "n", "i", "t", "e", "d", " ", "S", "t", "a", "t", "e", "s">>
\* the list of line 22
UsaList == {<<"U", "s", "a">>, <<"U", ".", "S", ".">>, <<"U", "S">>,
            <<"U", ".", "S", ".", "A", ".">>, UnitedStates}
\* the list of line 24
UkList == {<<"U", "k">>, <<"U", "K">>, <<"U", ".", "K", ".">>}

\* CorrectedEntry with the canonical name of the first list written "US"
CorrectedEntry_us(loc) ==
    IF loc # USA
    THEN LET titled == IF ~Contains(loc, <<"d", "'">>) THEN Title(loc) ELSE loc IN
         IF titled \in UsaList THEN <<"U", "S">>
         ELSE IF titled \in UkList THEN UnitedKingdom
         ELSE titled
    ELSE loc

\* the body of the loop of correct_locations, for one entry
CorrectedEntry(loc) ==
    IF loc # USA
    THEN LET titled == IF ~Contains(loc, <<"d", "'">>) THEN Title(loc) ELSE loc IN
         IF titled \in UsaList THEN USA
         ELSE IF titled \in UkList THEN UnitedKingdom
         ELSE titled
    ELSE loc

correct_locations(locs) == [k \in 1..Len(locs) |-> CorrectedEntry(locs[k])]

\* the locations a user types: the names the code and its help text mention, some
\* other names, and every string of up to MaxLocLen characters of LocAlphabet
NamedLocations ==
    UsaList \cup UkList
    \cup {USA, UnitedKingdom, <<>>,
          <<"u", "s">>, <<"u", "s", "a">>, <<"u", "k">>,
          <<"A", "n", "y">>, <<"A", "N", "Y">>, <<"p", "a", "r", "i", "s">>,
          <<"c", "o", "t", "e", " ", "d", "'", "i", "v", "o", "i", "r", "e">>,
          <<"A", "D", "'", "A">>}
LocAlphabet == {"u", "U", "s", "S", "a", "A", "d", "'", "."}
TypedLocations == UNION {[1..n -> LocAlphabet] : n \in 0..MaxLocLen}
LocationLists ==
    {<<loc>> : loc \in TypedLocations}
    \cup UNION {[1..n -> NamedLocations] : n \in 1..MaxLocs}

InitLoc ==
    /\ locations \in LocationLists
    /\ applied = 0
    /\ IdleRun /\ all_concerts = <<>> /\ IdleSort

\* correct_locations(locations)
CorrectLocations ==
    /\ applied < MaxApplied
    /\ locations' = correct_locations(locations)
    /\ applied' = applied + 1
    /\ UNCHANGED <<artist_names, i, all_concerts, pc, website, page, given_concerts,
                   input_locations, concerts_near_me>>

NextLoc == CorrectLocations

SpecLoc == InitLoc /\ [][NextLoc]_vars

\* C8: the first correct_locations turns every entry equal to one of "Usa", "US",
\* "U.S.", "U.S.A.", "United States" into "USA" and every entry equal to one of
\* "Uk", "UK", "U.K." into "United Kingdom".
UsaAliases == {<<"U", "s", "a">>, <<"U", "S">>, <<"U", ".", "S", ".">>,
               <<"U", ".", "S", ".", "A", ".">>, UnitedStates}
UkAliases == {<<"U", "k">>, <<"U", "K">>, <<"U", ".", "K", ".">>}
C8_AliasesCanonical ==
    [][applied = 0
        => \A k \in 1..Len(locations) :
              /\ locations[k] \in UsaAliases => locations'[k] = USA
              /\ locations[k] \in UkAliases => locations'[k] = UnitedKingdom]_vars

\* C9: a correct_locations applied to a list that correct_locations produced leaves
\* every entry as it is.
C9_Idempotent == [][applied >= 1 => locations' = locations]_vars

\* a second call was made on a list holding an entry rewritten through the alias
\* table, a title-cased entry and one kept for its "d'"
C9_Witness ==
    /\ applied = 2
    /\ \/ locations = <<USA, <<"P", "a", "r", "i", "s">>>>
       \/ locations = <<UnitedKingdom,
                        <<"c", "o", "t", "e", " ", "d", "'", "i", "v", "o", "i", "r", "e">>>>

(***************************************************************************)
(* sort_concerts.  Dates, addresses and locations are sequences of         *)
(* characters.                                                             *)
(***************************************************************************)
\* InsertByDate of an unstable sort: an element goes ahead of those with its own key
InsertByDate_front(sorted, c) ==
    LET before == {k \in 0..Len(sorted) :
                      \A j \in 1..k : StrLess(sorted[j].date, c.date)}
        at == CHOOSE k \in before : \A h \in before : h <= k
    IN SubSeq(sorted, 1, at) \o <<c>> \o SubSeq(sorted, at + 1, Len(sorted))

\* list.sort(key=date) is stable: an element goes behind those whose key is not
\* greater than its own
InsertByDate(sorted, c) ==
    LET before == {k \in 0..Len(sorted) :
                      \A j \in 1..k : ~StrLess(c.date, sorted[j].date)}
        at == CHOOSE k \in before : \A h \in before : h <= k
    IN SubSeq(sorted, 1, at) \o <<c>> \o SubSeq(sorted, at + 1, Len(sorted))

RECURSIVE SortedByDate(_)
SortedByDate(concerts) ==
    IF concerts = <<>> THEN <<>>
    ELSE InsertByDate(SortedByDate(SubSeq(concerts, 1, Len(concerts) - 1)), Last(concerts))

Any == <<"A", "n", "y">>
EmptyString == <<>>

\* NearMe with all() written for any()
NearMe_all(concert, locs) == \A k \in 1..Len(locs) : Contains(concert.address, locs[k])

\* any(location in concert["address"] for location in input_locations)
NearMe(concert, locs) == \E k \in 1..Len(locs) : Contains(concert.address, locs[k])

sort_concerts(concerts, locs) ==
    LET sorted == SortedByDate(concerts) IN
    [all_concerts |-> sorted,
     concerts_near_me |->
        IF locs \notin {<<Any>>, <<EmptyString>>}
        THEN SelectSeq(sorted, LAMBDA c : NearMe(c, locs))
        ELSE sorted]

\* the concerts and location lists sort_concerts is given
ConcertAt(venue, date, address) ==
    [performer |-> <<"Lang Lang">>, date |-> date, piece |-> <<"</div>">>,
     venue_name |-> <<venue>>, address |-> address,
     ticket_site |-> <<"https://tickets.example/", venue>>,
     image_url |-> <<"https://img.example/", venue>>]
August1 == <<"2", "0", "2", "3", "-", "0", "8", "-", "0", "1">>
July15 == <<"2", "0", "2", "3", "-", "0", "7", "-", "1", "5">>
December31 == <<"2", "0", "2", "2", "-", "1", "2", "-", "3", "1">>
NewYork == <<"N", "Y", ",", " ", "U", "S", "A">>
LosAngeles == <<"L", "A", ",", " ", "U", "S", "A">>
Paris == <<"P", "a", "r", "i", "s", ",", " ", "F", "r", "a", "n", "c", "e">>
Usak == <<"U", "s", "a", "k", ",", " ", "T", "u", "r", "k", "e", "y">>
France == <<"F", "r", "a", "n", "c", "e">>
ConcertPool ==
    {ConcertAt("Carnegie Hall", August1, NewYork),
     ConcertAt("Salle Pleyel", July15, Paris),
     ConcertAt("Disney Hall", July15, LosAngeles),
     ConcertAt("Usak Hall", August1, Usak),
     ConcertAt("Philharmonie de Paris", December31, Paris)}
ConcertLists ==
    UNION {{cs \in [1..n -> ConcertPool] : \A a, b \in 1..n : cs[a] = cs[b] => a = b}
           : n \in 0..MaxConcerts}
SortLocationLists ==
    {<<Any>>, <<EmptyString>>, <<USA>>, <<France>>, <<USA, France>>, <<<<"U", "s", "a">>>>,
     <<Any, France>>, <<<<"P", "a", "r">>>>}

InitSort ==
    /\ given_concerts \in ConcertLists
    /\ all_concerts = given_concerts
    /\ input_locations \in SortLocationLists
    /\ concerts_near_me = <<>>
    /\ pc = "unsorted"
    /\ artist_names = <<>> /\ i = 0 /\ website = None /\ page = NoPage
    /\ IdleLoc

\* concerts_near_me = sort_concerts(all_concerts, input_locations)
SortConcerts ==
    /\ pc = "unsorted"
    /\ all_concerts' = sort_concerts(all_concerts, input_locations).all_concerts
    /\ concerts_near_me' = sort_concerts(all_concerts, input_locations).concerts_near_me
    /\ pc' = "sorted"
    /\ UNCHANGED <<artist_names, i, website, page, locations, applied, given_concerts,
                   input_locations>>

NextSort == SortConcerts

SpecSort == InitSort /\ [][NextSort]_vars

Position(list, c) == CHOOSE k \in 1..Len(list) : list[k] = c
Elements(list) == {list[k] : k \in 1..Len(list)}
\* loc occurs in address as a run of consecutive characters
OccursIn(loc, address) ==
    \E from \in 1..(Len(address) + 1) :
        /\ from + Len(loc) <= Len(address) + 1
        /\ \A k \in 1..Len(loc) : address[from + k - 1] = loc[k]

\* C6: with the list ["Any"] or [""] every concert is kept; with any other list a
\* concert is kept exactly when one of the locations occurs in its address; the kept
\* concerts are in the order of the sorted list.
C6_LocationFilter ==
    pc = "sorted" =>
        /\ \A c \in Elements(given_concerts) :
              c \in Elements(concerts_near_me)
                <=> \/ input_locations \in {<<Any>>, <<EmptyString>>}
                    \/ \E k \in 1..Len(input_locations) :
                          OccursIn(input_locations[k], c.address)
        /\ Elements(concerts_near_me) \subseteq Elements(given_concerts)
        /\ \A a, b \in 1..Len(concerts_near_me) :
              a < b => Position(all_concerts, concerts_near_me[a])
                          < Position(all_concerts, concerts_near_me[b])

\* the filter dropped the concert whose address holds "Usa" but not "USA", and kept
\* the two others
C6_Witness ==
    /\ pc = "sorted" /\ input_locations = <<USA, France>>
    /\ Len(concerts_near_me) = 2 /\ Len(given_concerts) = 3
    /\ \E c \in Elements(given_concerts) : c.address = Usak

\* C7: the returned concerts are in ascending order of date, and two of the same
\* date are in the order they had in the list passed in; without a location
\* preference they are all the concerts passed in.
C7_StableSort ==
    pc = "sorted" =>
        /\ \A a, b \in 1..Len(concerts_near_me) :
              a < b =>
                /\ ~StrLess(concerts_near_me[b].date, concerts_near_me[a].date)
                /\ concerts_near_me[a].date = concerts_near_me[b].date
                      => Position(given_concerts, concerts_near_me[a])
                            < Position(given_concerts, concerts_near_me[b])
        /\ input_locations = <<Any>>
              => /\ Len(concerts_near_me) = Len(given_concerts)
                 /\ Elements(concerts_near_me) = Elements(given_concerts)

\* the list 2023-08-01, 2023-07-15, 2023-07-15 came back with the two concerts of
\* 2023-07-15 first, in their given order
C7_Witness ==
    /\ pc = "sorted" /\ input_locations = <<Any>>
    /\ Len(given_concerts) = 3
    /\ given_concerts[1].date = August1
    /\ given_concerts[2].date = July15 /\ given_concerts[3].date = July15
    /\ concerts_near_me = <<given_concerts[2], given_concerts[3], given_concerts[1]>>

(***************************************************************************)
(* Claims about the run.  A step with i' = i + 1 is one call of            *)
(* update_for_artist; page' is the page it read and all_concerts the list  *)
(* it was given.                                                           *)
(***************************************************************************)
Fetched(p) == p \in Pages
HasMarker(p) == Contains(Render(p), TourDates)
NumBlocks(p) == Len(p.blocks)
Appended == Len(all_concerts') - Len(all_concerts)
KeepsRecords == SubSeq(all_concerts', 1, Len(all_concerts)) = all_concerts

\* the delimiters of the five sub-fields, as found in the text of block k
LeftDelimiters == {StartDateL, PlaceL, AddressL, OfferL, ImageL}
RightDelimiters == {PlaceR, AddressR, OfferR, ImageR}
HasTime(text) == \E at \in 1..Len(text) : TimeAt(text, at)
HasLeftDelimiters(p, k) ==
    \A d \in LeftDelimiters : Contains(BlockText(p.blocks[k], k), d)
HasAllDelimiters(p, k) ==
    /\ HasLeftDelimiters(p, k)
    /\ \A d \in RightDelimiters : Contains(BlockText(p.blocks[k], k), d)
    /\ HasTime(BlockText(p.blocks[k], k))

\* the fields of the Concert of a well-formed block k, but for the piece
ExpectedFields(k) ==
    [performer |-> PagePerformer, date |-> DateOf(k), venue_name |-> <<Venues[k]>>,
     address |-> <<Addresses[k]>>, ticket_site |-> <<TicketSites[k]>>,
     image_url |-> <<ImageUrls[k]>>]
FieldsOf(c) ==
    [performer |-> c.performer, date |-> c.date, venue_name |-> c.venue_name,
     address |-> c.address, ticket_site |-> c.ticket_site, image_url |-> c.image_url]

\* C1: a performer whose update_for_artist fails does not end the run: when a call
\* has failed on a page with the tour-dates marker and an event block that lacks a
\* left delimiter, every performer of the list has still been taken from the loop.
C1_FailuresIsolated ==
    (/\ pc = "faulted" /\ Fetched(page) /\ HasMarker(page)
     /\ \E k \in 1..NumBlocks(page) : ~HasLeftDelimiters(page, k))
        => i = Len(artist_names)

\* C2: when get_website returned None for the last query, update_for_artist raised
\* no fault.
C2_ResolutionFailureSkipped == (i >= 1 /\ website = None) => pc # "faulted"

\* C3 as claimed: the k-th Concert a call appends comes from a block k that holds
\* every left and right delimiter (and the time of the start date), and a block that
\* lacks one makes the call fail on a page with the tour-dates marker.
C3_Original ==
    [][(i' = i + 1 /\ Fetched(page'))
        => \A k \in 1..NumBlocks(page') :
              /\ k <= Appended => HasAllDelimiters(page', k)
              /\ (HasMarker(page') /\ ~HasAllDelimiters(page', k)) => pc' = "faulted"]_vars

\* C3 as amended: the k-th Concert a call appends comes from a block k that holds
\* the left delimiter of every sub-field, and a block that lacks a left delimiter
\* makes the call fail, with no Concert built from it, on a page with the marker.
C3_LeftDelimiters ==
    [][(i' = i + 1 /\ Fetched(page'))
        => \A k \in 1..NumBlocks(page') :
              /\ k <= Appended => HasLeftDelimiters(page', k)
              /\ (HasMarker(page') /\ ~HasLeftDelimiters(page', k))
                    => (pc' = "faulted" /\ Appended < k)]_vars

\* a call failed at the second block, missing a left delimiter, after the first
\* block's Concert was appended
C3_Witness ==
    /\ pc = "faulted" /\ Fetched(page) /\ page.head = "header" /\ NumBlocks(page) >= 2
    /\ page.blocks[1] = "none" /\ page.blocks[2] \in LeftDefects
    /\ Len(all_concerts) = 1

\* what C4 promises of a call: n Concerts appended after the records already there,
\* in document order, with the date cut before the time
AppendsAllBlocks ==
    /\ pc' = "loop"
    /\ Appended = NumBlocks(page')
    /\ KeepsRecords
    /\ \A k \in 1..NumBlocks(page') :
          FieldsOf(all_concerts'[Len(all_concerts) + k]) = ExpectedFields(k)

AllWellFormed(p) == NumBlocks(p) >= 1 /\ \A k \in 1..NumBlocks(p) : p.blocks[k] = "none"

\* C4 as claimed: any page with the tour-dates marker and n >= 1 well-formed blocks.
C4_Original ==
    [][(i' = i + 1 /\ Fetched(page') /\ HasMarker(page') /\ AllWellFormed(page'))
        => AppendsAllBlocks]_vars

\* C4 as amended: the page also carries the "Tour Dates - " header the performer is
\* read from, and at least five lines follow the last occurrence of each venue name.
C4_WellFormedPage ==
    [][(i' = i + 1 /\ Fetched(page') /\ HasMarker(page') /\ AllWellFormed(page')
        /\ Contains(Render(page'), PerformerL) /\ page'.tail = "full")
        => AppendsAllBlocks]_vars

\* the second performer's page had two well-formed blocks; its Concerts follow the
\* first performer's
C4_Witness ==
    /\ pc = "loop" /\ i = 2 /\ Fetched(page) /\ page.head = "header"
    /\ page.tail = "full" /\ AllWellFormed(page) /\ NumBlocks(page) >= 2
    /\ Len(all_concerts) > NumBlocks(page)
    /\ StrLess(Last(all_concerts).date, all_concerts[Len(all_concerts) - 1].date)

\* C5: a call that read a page without the tour-dates marker does not fail and
\* leaves all_concerts as it was.
C5_NoMarkerNoChange ==
    [][(i' = i + 1 /\ Fetched(page') /\ ~HasMarker(page'))
        => (pc' = "loop" /\ all_concerts' = all_concerts)]_vars

\* a page without the marker but with event blocks was read while all_concerts
\* already held records
C5_Witness ==
    /\ pc = "loop" /\ i = 2 /\ Fetched(page) /\ ~HasMarker(page)
    /\ NumBlocks(page) >= 1 /\ all_concerts # <<>>

\* C10: a call that read a page with the marker and no "MusicEvent" token raised no
\* fault.
C10_NoEventsNoFault ==
    (i >= 1 /\ Fetched(page) /\ HasMarker(page) /\ ~Contains(Render(page), MusicEvent))
        => pc # "faulted"

====
